---- MODULE Spec2Model ----
(***************************************************************************)
(* The scrape session of testbook-automation: main() of the scraper, in    *)
(* its two variants.                                                       *)
(*   "human" : src/unnamed/part_000 (humanClick, randomized pacing,        *)
(*             aborts on an empty exam title)                              *)
(*   "plain" : src/src/workflows/scrapper/scraper.js (in-page click(),     *)
(*             fixed pacing, falls back to a default output name)          *)
(* Line numbers in the comments are those of src/unnamed/part_000 unless   *)
(* a file is named.                                                        *)
(*                                                                         *)
(* The browser is the environment: the quiz has numPages questions, the    *)
(* next control exists on a page that is not the last one, and on the last *)
(* one when lastHasNext; clicking it there shows the "last question"       *)
(* phrase.  Every protocol call may be rejected.  File-system calls are    *)
(* taken to succeed.                                                       *)
(***************************************************************************)
EXTENDS Integers, Sequences, FiniteSets, TLC

VARIABLES
  variant, optLink, optCount, skipCount,      \* command line (lines 180-193)
  commonTag,                                  \* --tag (line 192)
  numPages, lastHasNext, pagePos, phraseShown, \* the quiz in the browser
  pc,                                          \* position in main()
  browserClient, tabClient, logger,            \* lines 198, 201, 205, 241
  navI,                                        \* line 211: attempt number i
  waitElapsed,                                 \* line 55: Date.now() - startTime
  skipI,                                       \* line 252: i of the skip loop
  allData, qCounter, noteId, serial,           \* lines 262-265
  exitStatus, fileWritten, fileData,           \* process status, result file
  \* history of what the session did (not program state)
  connectCalls, waitCalls, solutionsClicks, skipClicks,
  nextTests, harvestClicks, outcomes, snapClicks, endedBy, fault,
  mouse,                 \* the humanClick of line 273: what the page gave
                         \* for the control, the mouse events dispatched
  \* one call of a function of the scraper on its own: which one, its
  \* argument, its result
  pPc, pIn, pOut,
  \* the batch driver and the validator (part_001 116-293, validateLinks.js)
  bPc,                   \* position in their main function
  allLinks,              \* the task list in memory
  linksFile,             \* links.json
  outputDir,             \* the .json files of output/scraped, oldest first
  taskI,                 \* the task of the loop of line 266
  sessions,              \* history: the scraper sessions started
  checked, updated       \* validator: entries checked, line 40

inputs == <<variant, optLink, optCount, skipCount, commonTag, numPages,
            lastHasNext>>
env    == <<pagePos, phraseShown>>
conns  == <<browserClient, tabClient, logger>>
navv   == <<navI>>
waitv  == <<waitElapsed, waitCalls>>
loopv  == <<allData, qCounter, noteId, serial>>
skipv  == <<skipI, skipClicks>>
harv   == <<nextTests, harvestClicks, outcomes, snapClicks, mouse>>
filev  == <<fileWritten, fileData>>
endv   == <<exitStatus, endedBy, fault>>
purev  == <<pPc, pIn, pOut>>
batchv == <<bPc, allLinks, linksFile, outputDir, taskI, sessions, checked,
            updated>>
mainv  == <<inputs, env, pc, conns, navv, waitv, loopv, skipv, harv, filev,
            endv, connectCalls, solutionsClicks>>
vars   == <<inputs, env, pc, conns, navv, waitv, loopv, skipv, harv, filev,
            endv, connectCalls, solutionsClicks, purev, batchv>>

\* ------------------------------------------------------------- bounds
MaxPages == 5
MaxSkip  == 2
MaxCount == 2
MaxFlat  == 6      \* tokens of a fragment without elements
MaxKids  == 2      \* children of an element of a fragment
MaxOptionKids == 5 \* child elements of the element holding the options
MaxTasks == 3      \* tasks of links.json
MaxAround == 4     \* nodes of a fragment that holds tables
MaxPolls == 3      \* timeouts of a call of waitForSelector, in pauses

\* ---------------------------------------------------- program constants
Absent      == -1      \* options.count not given: scrapeLimit = Infinity
Running     == -1      \* the process has not terminated
NoteIdBase  == 1000    \* line 264
MaxRetries  == 3       \* line 211
SelectorTimeoutMs == 10000   \* lines 227-228
PollMs      == 250     \* line 58

Variants == {"human", "plain"}

\* line 73: steps = 8
MouseSteps == 8
\* no humanClick called yet
NoMouse == [found |-> "none", events |-> <<>>]
\* line 95: result.value
SelectorFoundAlways(value) == TRUE
SelectorFound(value) == value # "null"

\* Date.now() advances by the 250 ms pause plus the time the poll took.
PollCost == {PollMs, 2 * PollMs}

\* line 55: Date.now() - startTime < timeout
KeepPollingInclusive(elapsed, timeout) == elapsed <= timeout
KeepPolling(elapsed, timeout) == elapsed < timeout

\* ------------------------------------------------------------ helpers

\* line 191 with line 286: allData.length >= scrapeLimit
LimitReachedStrict(len, count) == count # Absent /\ len > count
LimitReached(len, count) == count # Absent /\ len >= count

\* line 263
InitialQCounter(skip) == skip + 1

\* line 264
InitialNoteIdNoSkip(skip) == NoteIdBase
InitialNoteId(skip) == NoteIdBase + skip

\* line 220: the backoff is taken after a failed attempt i when i < 3
ShouldBackoffAlways(i) == i <= MaxRetries
ShouldBackoff(i) == i < MaxRetries


\* ------------------------------------------------------------ sanitizer
\* src/unnamed/part_001, transformAndSanitizeHtml.  A fragment is the tree
\* cheerio.load builds: a sequence of nodes [t, c, v, k] with t the tag (or
\* "text", "ws" for white space, "br"), c the class, v the text, k the
\* children.  A string is the sequence of its tokens: the leaves, and
\* [t |-> "open" / "close", v |-> tag].

Text(v) == [t |-> "text", c |-> "", v |-> v, k |-> <<>>]
Ws      == [t |-> "ws",   c |-> "", v |-> "",  k |-> <<>>]
Br      == [t |-> "br",   c |-> "", v |-> "",  k |-> <<>>]
Elem(tag, class, kids) == [t |-> tag, c |-> class, v |-> "", k |-> kids]
Open(tag, class) == [t |-> "open", c |-> class, v |-> tag, k |-> <<>>]
Close(tag) == [t |-> "close", c |-> "", v |-> tag, k |-> <<>>]

IsLeaf(n) == n.t \in {"text", "ws", "br"}
IsElement(n) == n.t \notin {"text", "ws"}

RECURSIVE Concat(_)
Concat(ss) == IF ss = <<>> THEN <<>> ELSE Head(ss) \o Concat(Tail(ss))

\* lines 41, 42: $(sel).each((_, el) => $(el).replaceWith($(el).html())).
\* The matched set is taken before the first replacement.  A matched node is
\* replaced by the re-parsed markup of its children; a matched node inside it
\* is afterwards replaced inside the detached original only, so its copy
\* stays in the document.
RECURSIVE Unwrap(_, _, _)
Unwrap(nodes, tag, class) ==
  Concat([i \in 1..Len(nodes) |->
    LET n == nodes[i] IN
    IF n.t = tag /\ (class = "" \/ n.c = class)
    THEN n.k
    ELSE IF IsLeaf(n) THEN <<n>>
    ELSE << [n EXCEPT !.k = Unwrap(n.k, tag, class)] >>])

\* line 45: $('o\\:p, span.ng-binding').remove()
RECURSIVE RemoveJunk(_)
RemoveJunk(nodes) ==
  Concat([i \in 1..Len(nodes) |->
    LET n == nodes[i] IN
    IF n.t = "span" /\ n.c = "ng-binding" THEN <<>>
    ELSE IF IsLeaf(n) THEN <<n>>
    ELSE << [n EXCEPT !.k = RemoveJunk(n.k)] >>])

\* line 52: /^\d+$/.test(element.text().trim())
RECURSIVE TextOf(_)
TextOf(nodes) ==
  Concat([i \in 1..Len(nodes) |->
    IF nodes[i].t \in {"text", "ws"} THEN << nodes[i] >>
    ELSE TextOf(nodes[i].k)])
RECURSIVE TrimLeft(_)
TrimLeft(s) == IF s # <<>> /\ Head(s).t = "ws" THEN TrimLeft(Tail(s)) ELSE s
RECURSIVE TrimRight(_)
TrimRight(s) ==
  IF s # <<>> /\ s[Len(s)].t = "ws" THEN TrimRight(SubSeq(s, 1, Len(s) - 1))
  ELSE s
Trim(s) == TrimRight(TrimLeft(s))
IsDigits(v) == v \in {"2"}
DigitsOnly(nodes) ==
  LET txt == Trim(TextOf(nodes)) IN
  /\ txt # <<>>
  /\ \A i \in 1..Len(txt) : txt[i].t = "text" /\ IsDigits(txt[i].v)

\* line 52: element.children().length === 0
NoChildElements(nodes) == \A i \in 1..Len(nodes) : ~IsElement(nodes[i])

\* lines 49-55
ShouldSuperscriptNoChildCheck(n) == n.t = "span" /\ DigitsOnly(n.k)
ShouldSuperscript(n) ==
  n.t = "span" /\ DigitsOnly(n.k) /\ NoChildElements(n.k)
RECURSIVE DigitSpans(_)
DigitSpans(nodes) ==
  [i \in 1..Len(nodes) |->
    LET n == nodes[i] IN
    IF IsLeaf(n) THEN n
    ELSE IF ShouldSuperscript(n) THEN Elem("sup", "", n.k)
    ELSE [n EXCEPT !.k = DigitSpans(n.k)]]

\* line 78: innerHtml && innerHtml.trim() !== ''
NotBlank(nodes) == \E i \in 1..Len(nodes) : nodes[i].t # "ws"

\* lines 76-80
UnwrappedParagraphNoBreak(kids) == IF NotBlank(kids) THEN kids ELSE <<>>
UnwrappedParagraph(kids) ==
  IF NotBlank(kids) THEN kids \o <<Br>> ELSE <<>>
RECURSIVE Paragraphs(_)
Paragraphs(nodes) ==
  Concat([i \in 1..Len(nodes) |->
    LET n == nodes[i] IN
    IF n.t = "p" THEN UnwrappedParagraph(Paragraphs(n.k))
    ELSE IF IsLeaf(n) THEN <<n>>
    ELSE << [n EXCEPT !.k = Paragraphs(n.k)] >>])

\* A table, given by the content of its cells (the row and cell elements
\* play no part in the passes).
Table(kids) == Elem("table", "", kids)

\* line 84: $('table').find('br').remove()
RECURSIVE RemoveBreaks(_)
RemoveBreaks(nodes) ==
  Concat([i \in 1..Len(nodes) |->
    LET n == nodes[i] IN
    IF n.t = "br" THEN <<>>
    ELSE IF IsLeaf(n) THEN <<n>>
    ELSE << [n EXCEPT !.k = RemoveBreaks(n.k)] >>])

\* lines 87-101: prev() and next() are the nearest sibling ELEMENTS of the
\* table, whatever text lies between; a break goes when only breaks are
\* among the elements between it and a table
RECURSIVE TableBreaks(_)
TableBreaks(nodes) ==
  LET Between_(i, t) == {j \in 1..Len(nodes) : (i < j /\ j < t) \/ (t < j /\ j < i)}
      Reached(i) == \E t \in 1..Len(nodes) :
                      /\ nodes[t].t = "table"
                      /\ \A j \in Between_(i, t) :
                           IsElement(nodes[j]) => nodes[j].t = "br"
  IN Concat([i \in 1..Len(nodes) |->
       LET n == nodes[i] IN
       IF n.t = "br" THEN (IF Reached(i) THEN <<>> ELSE <<n>>)
       ELSE IF IsLeaf(n) THEN <<n>>
       ELSE IF n.t = "table" THEN << [n EXCEPT !.k = RemoveBreaks(n.k)] >>
       ELSE << [n EXCEPT !.k = TableBreaks(n.k)] >>])

\* lines 38-101: the passes over the tree, in order (the fragments of the
\* model hold no style attribute, math script or image)
DomPasses(nodes) ==
  TableBreaks(Paragraphs(DigitSpans(RemoveJunk(
     Unwrap(Unwrap(nodes, "font", ""), "span", "math-tex")))))

\* line 103: $.html()
RECURSIVE Html(_)
Html(nodes) ==
  Concat([i \in 1..Len(nodes) |->
    LET n == nodes[i] IN
    IF IsLeaf(n) THEN <<n>>
    ELSE <<Open(n.t, n.c)>> \o Html(n.k) \o <<Close(n.t)>>])

\* cheerio.load(htmlString, ..., false) on a string of balanced tags
RECURSIVE LoadFrom(_, _)
LoadFrom(toks, i) ==
  IF i > Len(toks) \/ toks[i].t = "close" THEN [n |-> <<>>, i |-> i]
  ELSE IF toks[i].t = "open"
       THEN LET inner == LoadFrom(toks, i + 1)
                rest  == LoadFrom(toks, inner.i + 1)
            IN [n |-> <<Elem(toks[i].v, toks[i].c, inner.n)>> \o rest.n,
                i |-> rest.i]
       ELSE LET rest == LoadFrom(toks, i + 1)
            IN [n |-> <<toks[i]>> \o rest.n, i |-> rest.i]
Load(toks) == LoadFrom(toks, 1).n

\* a match of (<br\s*\/?>\s*)+ starting at token i: the number of breaks in
\* it and the index after it
RECURSIVE BrRun(_, _)
BrRun(s, i) ==
  IF i > Len(s) THEN [brs |-> 0, end |-> i]
  ELSE IF s[i].t = "br"
       THEN LET r == BrRun(s, i + 1) IN [brs |-> r.brs + 1, end |-> r.end]
  ELSE IF s[i].t = "ws" THEN BrRun(s, i + 1)
  ELSE [brs |-> 0, end |-> i]

\* line 108: replace(/(<br\s*\/?>\s*){3,}/gi, '<br><br>')
CollapseFrom == 3
RECURSIVE CollapseBreaksAt(_, _)
CollapseBreaksAt(s, i) ==
  IF i > Len(s) THEN <<>>
  ELSE IF s[i].t = "br" /\ BrRun(s, i).brs >= CollapseFrom
       THEN <<Br, Br>> \o CollapseBreaksAt(s, BrRun(s, i).end)
       ELSE <<s[i]>> \o CollapseBreaksAt(s, i + 1)
CollapseBreaksNever(s) == s
CollapseBreaks(s) == CollapseBreaksAt(s, 1)

\* line 109: replace(/^(\s*<br\s*\/?>)+|(<br\s*\/?>\s*)+$/gi, '')
StripEnds(s) ==
  LET LeadingRun(u) ==
        LET pre == {i \in 0..Len(u) : \A j \in 1..i : u[j].t \in {"ws", "br"}}
            brs == {i \in pre : i >= 1 /\ u[i].t = "br"}
        IN IF brs = {} THEN 0 ELSE CHOOSE i \in brs : \A j \in brs : j <= i
      TrailingRun(u) ==
        LET suf == {i \in 1..(Len(u) + 1) :
                      \A j \in i..Len(u) : u[j].t \in {"ws", "br"}}
            brs == {i \in suf : i <= Len(u) /\ u[i].t = "br"}
        IN IF brs = {} THEN Len(u) + 1
           ELSE CHOOSE i \in brs : \A j \in brs : i <= j
      t == SubSeq(s, LeadingRun(s) + 1, Len(s))
  IN SubSeq(t, 1, TrailingRun(t) - 1)

\* lines 105-109 (the fragments of the model hold no comment, no &nbsp; and
\* no soft hyphen)
StringPasses(s) == StripEnds(CollapseBreaks(s))

\* html-minifier-terser, collapseWhitespace: a run of white space becomes
\* one space, and none is kept next to a line break or at either end
RECURSIVE CollapseWhitespaceAt(_, _)
CollapseWhitespaceAt(s, i) ==
  IF i > Len(s) THEN <<>>
  ELSE IF s[i].t = "ws" /\
          (\/ i = 1 \/ i = Len(s)
           \/ s[i - 1].t \in {"ws", "br"}
           \/ s[i + 1].t = "br"
           \/ (s[i + 1].t = "ws" /\ BrRun(s, i + 1).brs > 0))
       THEN CollapseWhitespaceAt(s, i + 1)
       ELSE <<s[i]>> \o CollapseWhitespaceAt(s, i + 1)

\* lines 18-27: minify, or the snippet itself when minify throws
minifyHtmlLosing(htmlString, minifierThrows) ==
  IF htmlString = <<>> THEN htmlString
  ELSE IF minifierThrows THEN <<>>
  ELSE CollapseWhitespaceAt(htmlString, 1)
minifyHtml(htmlString, minifierThrows) ==
  IF htmlString = <<>> THEN htmlString                       \* 19
  ELSE IF minifierThrows THEN htmlString                     \* 25
  ELSE CollapseWhitespaceAt(htmlString, 1)                   \* 21

\* An argument of the sanitizer: null, undefined, or a string (given by the
\* tree it parses to; the empty string parses to no node).
Null == [kind |-> "null", dom |-> <<>>]
Undefined == [kind |-> "undefined", dom |-> <<>>]
Str(nodes) == [kind |-> "string", dom |-> nodes]

\* lines 29-115
transformAndSanitizeHtml(htmlString, minifierThrows) ==
  IF htmlString.kind # "string" \/ htmlString.dom = <<>> THEN <<>>   \* 30
  ELSE Trim(minifyHtml(StringPasses(Html(DomPasses(htmlString.dom))),
                       minifierThrows))

\* ------------------------------------------------------ tag resolver
\* A section name is a sequence of these pieces (a space, or a word in the
\* letter case shown); a question number is a JavaScript value.
Sp == " "
Words == {"Section", "section", "I", "II", "Quantitative", "quants",
          "Intelligence", "Reasoning", "ENGLISH", "awareness", "Knowledge",
          "computer", "Bengali", "other"}

\* String.prototype.toLowerCase, piece by piece
LowerWord(w) ==
  CASE w = "Section" -> "section"
    [] w = "I" -> "i"
    [] w = "II" -> "ii"
    [] w = "Quantitative" -> "quantitative"
    [] w = "Intelligence" -> "intelligence"
    [] w = "Reasoning" -> "reasoning"
    [] w = "ENGLISH" -> "english"
    [] w = "Knowledge" -> "knowledge"
    [] w = "Bengali" -> "bengali"
    [] OTHER -> w
toLowerCase(name) == [i \in 1..Len(name) |-> LowerWord(name[i])]

\* String.prototype.includes for one of the keywords
includes(name, keyword) == \E i \in 1..Len(name) : name[i] = keyword

RECURSIVE trimStart(_)
trimStart(name) ==
  IF name # <<>> /\ Head(name) = Sp THEN trimStart(Tail(name)) ELSE name
RECURSIVE trimEnd(_)
trimEnd(name) ==
  IF name # <<>> /\ name[Len(name)] = Sp
  THEN trimEnd(SubSeq(name, 1, Len(name) - 1)) ELSE name
trim(name) == trimEnd(trimStart(name))

NaN == [kind |-> "NaN", v |-> 0]
Num(n) == [kind |-> "number", v |-> n]
\* typeof x === 'number'
TypeofNumber(x) == x.kind \in {"number", "NaN"}
\* lo <= x && x <= hi: every comparison with NaN is false
Between(x, lo, hi) == x.kind = "number" /\ lo <= x.v /\ x.v <= hi

NoTag == "null"
\* lines 122-128
KeywordTagGIFirst(lc) ==
  IF includes(lc, "intelligence") \/ includes(lc, "reasoning") THEN "GI"
  ELSE IF includes(lc, "quantitative") \/ includes(lc, "quants") THEN "MATH"
  ELSE IF includes(lc, "english") THEN "ENG"
  ELSE IF includes(lc, "awareness") \/ includes(lc, "knowledge") THEN "GK"
  ELSE IF includes(lc, "computer") THEN "COMPUTER"
  ELSE IF includes(lc, "bengali") THEN "BENGALI"
  ELSE NoTag
KeywordTag(lc) ==
  IF includes(lc, "quantitative") \/ includes(lc, "quants") THEN "MATH"
  ELSE IF includes(lc, "intelligence") \/ includes(lc, "reasoning") THEN "GI"
  ELSE IF includes(lc, "english") THEN "ENG"
  ELSE IF includes(lc, "awareness") \/ includes(lc, "knowledge") THEN "GK"
  ELSE IF includes(lc, "computer") THEN "COMPUTER"
  ELSE IF includes(lc, "bengali") THEN "BENGALI"
  ELSE NoTag

\* an absent section name (null or undefined)
NoName == <<"null">>
SectionI == <<"Section", Sp, "I">>
SectionII == <<"Section", Sp, "II">>

\* lines 110-129
getTagForQuestion(sectionName, questionNumber) ==
  IF sectionName = NoName \/ sectionName = <<>>
     \/ ~TypeofNumber(questionNumber) THEN NoTag                  \* 111
  ELSE LET s == trim(sectionName)                                 \* 112
       IN IF s = SectionI /\ Between(questionNumber, 1, 30) THEN "MATH"
          ELSE IF s = SectionI /\ Between(questionNumber, 31, 60) THEN "GI"
          ELSE IF s = SectionII /\ Between(questionNumber, 1, 45) THEN "ENG"
          ELSE IF s = SectionII /\ Between(questionNumber, 46, 70) THEN "GK"
          ELSE KeywordTag(toLowerCase(s))                         \* 121-128

\* A page as the parser sees it.  Without the active-question container
\* nothing else is read.  number: the digits of the number element, or NaN
\* for none; kids: the child elements of the element that holds the option
\* containers, in document order, each an option container or another
\* element.
OptionEl(text, correct) == [option |-> TRUE, text |-> text, correct |-> correct]
OtherEl == [option |-> FALSE, text |-> Undefined, correct |-> FALSE]
NoContainer ==
  [container |-> FALSE, number |-> NaN, section |-> <<>>,
   comprehension |-> Undefined, body |-> Undefined, solution |-> Undefined,
   kids |-> <<>>, raises |-> "none"]
Page(number, section, comprehension, body, solution, kids) ==
  [container |-> TRUE, number |-> number, section |-> section,
   comprehension |-> comprehension, body |-> body, solution |-> solution,
   kids |-> kids, raises |-> "none"]

\* .html()?.trim(): undefined without the element, else its trimmed markup
Raw(x) == IF x.kind = "string" THEN Str(Trim(x.dom)) ELSE x

\* line 161
QuestionHeader ==
  <<Br, Br, Open("strong", ""), Open("u", ""), Text("Question"),
    Close("u"), Close("strong"), Br>>

\* lines 151 and 163: the option containers, and the position of each child
OptionPositions(kids) == {i \in 1..Len(kids) : kids[i].option}
OptionContainers(kids) == SelectSeq(kids, LAMBDA k : k.option)

\* line 163: filter(correct).index(): the 0-based position of the first
\* correct-marked option container among ALL its sibling elements, -1 for none
Index(kids) ==
  LET marked == {i \in OptionPositions(kids) : kids[i].correct}
  IN IF marked = {} THEN -1
     ELSE (CHOOSE i \in marked : \A j \in marked : i <= j) - 1

\* x || null
OrNull(x) == IF x = <<>> THEN Null ELSE Str(x)
\* sanitizedOptions[k - 1] || null
OptionField(sanitizedOptions, k) ==
  IF k <= Len(sanitizedOptions) THEN OrNull(sanitizedOptions[k]) ELSE Null

\* line 164
Invalid(finalQuestionHtml, sanitizedOptions) ==
  finalQuestionHtml = <<>> \/ Len(sanitizedOptions) = 0

\* line 171
TagsOf(tag) == IF tag # NoTag THEN <<tag>> ELSE <<>>

\* An exception on its way out of a function.
Raised == << [error |-> "thrown"] >>

\* lines 173-175: catch (e) { ...; return null; }
CaughtRethrown(e) == e
Caught(e) == <<>>

\* lines 132-176: the record, or <<>> for null.  html.raises tells where
\* the snapshot makes a call throw: "load" for cheerio.load (134),
\* "sanitize" for a call of the sanitizer (155-158), "none".
scrapeSingleQuestionPage(html, fallbackCounter, nId, serialNumber, throws) ==
  IF html.raises = "load" THEN Caught(Raised)                        \* 134
  ELSE IF ~html.container THEN <<>>                                  \* 137
  ELSE IF html.raises = "sanitize" THEN Caught(Raised)               \* 155
  ELSE
    LET qNum == IF html.number # NaN THEN html.number
                ELSE fallbackCounter                                 \* 142
        tag == getTagForQuestion(trim(html.section), qNum)           \* 143-144
        opts == OptionContainers(html.kids)
        rawOptions == [i \in 1..Len(opts) |-> Raw(opts[i].text)]     \* 150-153
        sanitizedComprehension ==
          transformAndSanitizeHtml(Raw(html.comprehension), throws)
        sanitizedQuestionBody ==
          transformAndSanitizeHtml(Raw(html.body), throws)
        sanitizedSolution ==
          transformAndSanitizeHtml(Raw(html.solution), throws)
        sanitizedOptions ==
          [i \in 1..Len(opts) |->
             transformAndSanitizeHtml(rawOptions[i], throws)] \* 158
        finalQuestionHtml ==
          IF sanitizedComprehension # <<>>
          THEN sanitizedComprehension \o QuestionHeader \o sanitizedQuestionBody
          ELSE sanitizedQuestionBody                                 \* 160-161
        correctAnswerIndex == Index(html.kids)                       \* 163
    IN IF Invalid(finalQuestionHtml, sanitizedOptions) THEN <<>>     \* 164
       ELSE << [noteId |-> nId, SL |-> serialNumber,
                Question |-> finalQuestionHtml,
                OP1 |-> OptionField(sanitizedOptions, 1),
                OP2 |-> OptionField(sanitizedOptions, 2),
                OP3 |-> OptionField(sanitizedOptions, 3),
                OP4 |-> OptionField(sanitizedOptions, 4),
                Answer |-> IF correctAnswerIndex # -1
                           THEN correctAnswerIndex + 1 ELSE 0,
                Solution |-> sanitizedSolution,
                Tags |-> TagsOf(tag)] >>                             \* 166-172

\* line 280: if (commonTag) qData.Tags.push(commonTag)
PushCommonTag(qData, tag) ==
  IF qData # <<>> /\ tag # NoTag
  THEN << [qData[1] EXCEPT !.Tags = Append(@, tag)] >>
  ELSE qData

\* --tag: absent, or a tag
CommonTags == {NoTag, "MATH", "GK"}

\* The pages a session meets: no container, a container without option
\* containers, and a question of the section "Quantitative other".
SessionQuestion ==
  Page(Num(5), <<"Quantitative", Sp, "other">>, Undefined,
       Str(<<Elem("p", "", <<Text("X")>>)>>), Str(<<Text("X")>>),
       <<OptionEl(Str(<<Text("X")>>), FALSE),
         OptionEl(Str(<<Text("2")>>), TRUE)>>)
Snapshots ==
  {NoContainer, [SessionQuestion EXCEPT !.kids = <<>>], SessionQuestion,
   [NoContainer EXCEPT !.raises = "load"],
   [SessionQuestion EXCEPT !.raises = "sanitize"]}

\* lines 279-281
CollectAlways(data, qData, nId, s) ==
  Append(data, IF qData # <<>> THEN qData[1] ELSE [noteId |-> nId, SL |-> s])
Collect(data, qData, nId, s) ==
  IF qData # <<>> THEN Append(data, qData[1]) ELSE data

\* line 282
SerialAfterAlways(s, qData) == s + 1
SerialAfter(s, qData) == IF qData # <<>> THEN s + 1 ELSE s

\* lines 292-293
NoteIdAfterNextStuck(n) == n
NoteIdAfterNext(n) == n + 1

\* line 303
ShouldWriteAlways(data) == TRUE
ShouldWrite(data) == Len(data) > 0

\* line 307: JSON.stringify(allData): the array, element by element in order
Serialize(data) == [k \in 1..Len(data) |-> data[k]]

\* lines 231, 237, 315: process.exit(1); a main() that returns ends with 0
ExitCodeAlwaysZero(failed) == 0
ExitCode(failed) == IF failed THEN 1 ELSE 0

\* lines 229-232 (scraper.js 273-284): what follows a failed selector wait
AfterSetupFailureContinue == "readTitle"
AfterSetupFailure == "exited"

\* lines 253 and 288: !!document.querySelector(nextButton)
NextExistsAlways == TRUE
NextExists == pagePos < numPages \/ lastHasNext

\* the page after a click on the next control
PosAfterNext == IF pagePos < numPages THEN pagePos + 1 ELSE pagePos
PhraseAfterNext == phraseShown \/ pagePos >= numPages

\* ---------------------------------------------------------------- Init
MainInit ==
  /\ variant \in Variants
  /\ optLink \in BOOLEAN
  /\ optCount \in {Absent} \cup 0..MaxCount
  /\ commonTag \in CommonTags
  /\ skipCount \in 0..MaxSkip
  /\ numPages \in 1..MaxPages
  /\ lastHasNext \in BOOLEAN
  /\ pagePos = 0 /\ phraseShown = FALSE
  /\ pc = "main"
  /\ browserClient = "unset" /\ tabClient = "unset" /\ logger = "unset"
  /\ navI = 0
  /\ waitElapsed = 0 /\ waitCalls = 0
  /\ skipI = 0 /\ skipClicks = 0
  /\ allData = <<>> /\ qCounter = 0 /\ noteId = 0 /\ serial = 0
  /\ nextTests = 0 /\ harvestClicks = 0
  /\ outcomes = <<>> /\ snapClicks = <<>>
  /\ mouse = NoMouse
  /\ fileWritten = FALSE /\ fileData = <<>>
  /\ exitStatus = Running /\ endedBy = "none" /\ fault = "none"
  /\ connectCalls = 0 /\ solutionsClicks = 0

\* a session: no function is called on its own
BatchIdle ==
  /\ bPc = "idle" /\ allLinks = <<>> /\ linksFile = <<>> /\ outputDir = <<>>
  /\ taskI = 0 /\ sessions = <<>> /\ checked = {} /\ updated = FALSE

Init ==
  /\ MainInit
  /\ pPc = "session" /\ pIn = <<>> /\ pOut = <<>>
  /\ BatchIdle

\* throw inside the outer try: control goes to the catch of line 311
Throw(cause) ==
  /\ pc' = "catch"
  /\ fault' = cause
  /\ UNCHANGED <<exitStatus, endedBy>>

\* process.exit(1): the process ends here, nothing after it runs
Exit1(cause) ==
  /\ pc' = "exited"
  /\ exitStatus' = ExitCode(TRUE)
  /\ fault' = cause
  /\ UNCHANGED endedBy

Goto(label) ==
  /\ pc' = label
  /\ UNCHANGED endv

\* lines 187-196
ParseOptions ==
  /\ pc = "main"
  /\ IF ~optLink THEN Exit1("missingUrl") ELSE Goto("connect")
  /\ UNCHANGED <<batchv, purev, inputs, env, conns, navv, waitv, loopv, skipv, harv, filev,
                 connectCalls, solutionsClicks>>

\* line 201
ConnectBrowser ==
  /\ pc = "connect"
  /\ connectCalls' = connectCalls + 1
  /\ \/ browserClient' = "open" /\ Goto("createTab")
     \/ browserClient' = browserClient /\ Throw("error")
  /\ UNCHANGED <<batchv, purev, inputs, env, tabClient, logger, navv, waitv, loopv, skipv,
                 harv, filev, solutionsClicks>>

\* lines 203-209
CreateTab ==
  /\ pc = "createTab"
  /\ \/ tabClient' = "open" /\ navI' = 1 /\ Goto("navigate")
     \/ tabClient' = tabClient /\ navI' = navI /\ Throw("error")   \* 204, 205 reject
     \/ tabClient' = "open" /\ navI' = navI /\ Throw("error")      \* 209 rejects
  /\ UNCHANGED <<batchv, purev, inputs, env, browserClient, logger, waitv, loopv, skipv,
                 harv, filev, connectCalls, solutionsClicks>>

\* lines 211-223, one attempt; i goes out of scope when the loop ends
Navigate ==
  /\ pc = "navigate"
  /\ navI <= MaxRetries
  /\ \/ /\ navI' = 0                                         \* 217 break
        /\ waitElapsed' = 0 /\ waitCalls' = waitCalls + 1    \* 227, 54
        /\ Goto("waitTitle")
     \/ /\ UNCHANGED <<navI, waitv>>
        /\ IF ShouldBackoff(navI) THEN Goto("backoff")       \* 220
           ELSE Throw("navigation")                          \* 221
  /\ UNCHANGED <<batchv, purev, inputs, env, conns, loopv, skipv, harv, filev, connectCalls,
                 solutionsClicks>>

\* line 220: randomDelay(4000, 6000), then i++
Backoff ==
  /\ pc = "backoff"
  /\ navI' = navI + 1
  /\ Goto("navigate")
  /\ UNCHANGED <<batchv, purev, inputs, env, conns, waitv, loopv, skipv, harv, filev,
                 connectCalls, solutionsClicks>>

\* lines 53-61 called from 227 / 228: one turn of the polling loop; when the
\* selector is found the caller goes on (to the next wait, which starts its
\* own clock, or to line 234)
WaitPoll(here, there) ==
  /\ pc = here
  /\ KeepPolling(waitElapsed, SelectorTimeoutMs)             \* 55
  /\ \/ /\ waitElapsed' = 0                                  \* 57 found
        /\ waitCalls' = IF there = "waitButton" THEN waitCalls + 1
                        ELSE waitCalls
        /\ Goto(there)
     \/ \E c \in PollCost :
          /\ waitElapsed' = waitElapsed + c                  \* 58
          /\ waitCalls' = waitCalls
          /\ Goto(here)
     \/ /\ UNCHANGED waitv                                   \* 56 rejects
        /\ IF variant = "human"
           THEN Exit1("error")                               \* 229-231
           ELSE Throw("error")                               \* scraper.js 283
  /\ UNCHANGED <<batchv, purev, inputs, env, conns, navv, loopv, skipv, harv, filev,
                 connectCalls, solutionsClicks>>

\* line 60 caught at 229-232 (scraper.js 273-281)
WaitTimeout(here) ==
  /\ pc = here
  /\ ~KeepPolling(waitElapsed, SelectorTimeoutMs)
  /\ pc' = AfterSetupFailure
  /\ exitStatus' = IF AfterSetupFailure = "exited" THEN ExitCode(TRUE)
                   ELSE exitStatus
  /\ fault' = "selectorTimeout"
  /\ UNCHANGED <<batchv, purev, inputs, env, conns, navv, waitv, loopv, skipv, harv, filev,
                 connectCalls, solutionsClicks, endedBy>>

WaitTitle == WaitPoll("waitTitle", "waitButton")
WaitButton == WaitPoll("waitButton", "readTitle")
WaitTitleTimeout == WaitTimeout("waitTitle")
WaitButtonTimeout == WaitTimeout("waitButton")

\* lines 234-243 (scraper.js 286-300): exam title, output name, log sink
ReadTitle ==
  /\ pc = "readTitle"
  /\ \/ logger' = logger /\ Throw("error")                  \* 234 rejects
     \/ \E titleEmpty \in BOOLEAN :
          IF titleEmpty /\ variant = "human"
          THEN logger' = logger /\ Exit1("emptyTitle")       \* 237
          ELSE logger' = "open" /\ Goto("enterQuiz")         \* 241
  /\ UNCHANGED <<batchv, purev, inputs, env, browserClient, tabClient, navv, waitv, loopv,
                 skipv, harv, filev, connectCalls, solutionsClicks>>

\* lines 245-248 (scraper.js 302-305): click the solutions button
EnterQuiz ==
  /\ pc = "enterQuiz"
  /\ \/ /\ solutionsClicks' = solutionsClicks + 1
        /\ pagePos' = 1
        /\ skipI' = 0
        /\ Goto("skip")
     \/ /\ UNCHANGED <<solutionsClicks, pagePos, skipI>>     \* 95 or 247
        /\ Throw("error")
  /\ UNCHANGED <<batchv, purev, inputs, phraseShown, conns, navv, waitv, loopv, skipClicks,
                 harv, filev, connectCalls>>

\* lines 250, 252: skipCount > 0, and i < skipCount
SkipMoreOneExtra(i, skip) == i <= skip
SkipMore(i, skip) == skip > 0 /\ i < skip

\* lines 250-257 (scraper.js 307-318): one turn of the skip loop
SkipStep ==
  /\ pc = "skip"
  /\ SkipMore(skipI, skipCount)
  /\ \/ /\ NextExists                                        \* 253-256
        /\ skipClicks' = skipClicks + 1
        /\ pagePos' = PosAfterNext
        /\ phraseShown' = PhraseAfterNext
        /\ skipI' = skipI + 1
        /\ Goto("skip")
     \/ /\ ~NextExists                                       \* 254 break
        /\ UNCHANGED <<skipClicks, pagePos, phraseShown, skipI>>
        /\ Goto("initLoop")
     \/ /\ UNCHANGED <<skipClicks, pagePos, phraseShown, skipI>>
        /\ Throw("error")                                    \* 253 or 255 rejects
  /\ UNCHANGED <<batchv, purev, inputs, conns, navv, waitv, loopv, harv, filev,
                 connectCalls, solutionsClicks>>

\* lines 250, 252: no skip asked for, or the skip loop ran to its end
SkipDone ==
  /\ pc = "skip"
  /\ ~SkipMore(skipI, skipCount)
  /\ Goto("initLoop")
  /\ UNCHANGED <<batchv, purev, inputs, env, conns, navv, waitv, loopv, skipv, harv, filev,
                 connectCalls, solutionsClicks>>

\* lines 262-265
InitLoop ==
  /\ pc = "initLoop"
  /\ allData' = <<>>
  /\ qCounter' = InitialQCounter(skipCount)
  /\ noteId' = InitialNoteId(skipCount)
  /\ serial' = 1
  /\ Goto("process")
  /\ UNCHANGED <<batchv, purev, inputs, env, conns, navv, waitv, skipv, harv, filev,
                 connectCalls, solutionsClicks>>

\* lines 268-273 (scraper.js 329-333): scroll, pause, then the click on
\* "view solution": humanClick, or in scraper.js one evaluation of
\* querySelector(..).click()
Process ==
  /\ pc = "process"
  /\ \/ IF variant = "human" THEN Goto("humanClick") ELSE Goto("snapshot")
     \/ Throw("error")                                       \* 269 rejects
  /\ mouse' = NoMouse
  /\ UNCHANGED <<batchv, purev, inputs, env, conns, navv, waitv, loopv, skipv,
                 nextTests, harvestClicks, outcomes, snapClicks, filev,
                 connectCalls, solutionsClicks>>

\* lines 85-96: the page gives the centre of the control, or null
HumanLocate ==
  /\ pc = "humanClick"
  /\ \/ \E value \in {"null", "centre"} :
          /\ mouse' = [mouse EXCEPT !.found = value]
          /\ IF SelectorFound(value) THEN Goto("mouseMove")
             ELSE Throw("error")                              \* 95
     \/ mouse' = mouse /\ Throw("error")                      \* 85 rejects
  /\ UNCHANGED <<batchv, purev, inputs, env, conns, navv, waitv, loopv, skipv,
                 nextTests, harvestClicks, outcomes, snapClicks, filev,
                 connectCalls, solutionsClicks>>

\* lines 98, 74-82: humanMoveMouse, i = 0..steps
HumanMove ==
  /\ pc = "mouseMove"
  /\ \/ /\ mouse' = [mouse EXCEPT !.events =
                        [i \in 1..(MouseSteps + 1) |-> <<"mouseMoved", "near">>]]
        /\ Goto("mousePress")
     \/ \E done \in 0..MouseSteps :                           \* 77 rejects
          /\ mouse' = [mouse EXCEPT !.events =
                          [i \in 1..done |-> <<"mouseMoved", "near">>]]
          /\ Throw("error")
  /\ UNCHANGED <<batchv, purev, inputs, env, conns, navv, waitv, loopv, skipv,
                 nextTests, harvestClicks, outcomes, snapClicks, filev,
                 connectCalls, solutionsClicks>>

\* lines 102, 104: one mouse event at x, y
HumanButton(here, type, there) ==
  /\ pc = here
  /\ \/ /\ mouse' = [mouse EXCEPT !.events = Append(@, <<type, mouse.found>>)]
        /\ Goto(there)
     \/ mouse' = mouse /\ Throw("error")
  /\ UNCHANGED <<batchv, purev, inputs, env, conns, navv, waitv, loopv, skipv,
                 nextTests, harvestClicks, outcomes, snapClicks, filev,
                 connectCalls, solutionsClicks>>

HumanPress == HumanButton("mousePress", "mousePressed", "mouseRelease")
HumanRelease == HumanButton("mouseRelease", "mouseReleased", "snapshot")

\* lines 277-284: snapshot, extraction, collection
Snapshot ==
  /\ pc = "snapshot"
  /\ \/ \E html \in Snapshots, minifierThrows \in BOOLEAN :
          LET result == scrapeSingleQuestionPage(html, Num(qCounter), noteId,
                                                 serial, minifierThrows)
              qData == PushCommonTag(result, commonTag)
          IN IF result = Raised         \* 278 throws inside the try of main
             THEN /\ UNCHANGED <<allData, serial, outcomes, snapClicks>>
                  /\ Throw("extraction")
             ELSE /\ allData' = Collect(allData, qData, noteId, serial)
                  /\ serial' = SerialAfter(serial, qData)
                  /\ outcomes' = Append(outcomes, qData # <<>>)
                  /\ snapClicks' = IF qData # <<>>
                                   THEN Append(snapClicks, harvestClicks)
                                   ELSE snapClicks
                  /\ Goto("checkLimit")
     \/ /\ UNCHANGED <<allData, serial, outcomes, snapClicks>>
        /\ Throw("error")                                    \* 277 rejects
  /\ UNCHANGED <<batchv, purev, inputs, env, conns, navv, waitv, qCounter, noteId, skipv,
                 nextTests, harvestClicks, mouse, filev, connectCalls,
                 solutionsClicks>>

\* line 286
CheckLimit ==
  /\ pc = "checkLimit"
  /\ IF LimitReached(Len(allData), optCount)
     THEN pc' = "finalize" /\ endedBy' = "limit"
     ELSE pc' = "checkNext" /\ endedBy' = endedBy
  /\ UNCHANGED <<batchv, purev, inputs, env, conns, navv, waitv, loopv, skipv, harv, filev,
                 connectCalls, solutionsClicks, exitStatus, fault>>

\* lines 288-289
CheckNext ==
  /\ pc = "checkNext"
  /\ \/ /\ nextTests' = nextTests + 1
        /\ IF NextExists
           THEN pc' = "clickNext" /\ endedBy' = endedBy
           ELSE pc' = "finalize" /\ endedBy' = "noNext"
        /\ UNCHANGED <<exitStatus, fault>>
     \/ /\ nextTests' = nextTests + 1
        /\ Throw("error")                                    \* 288 rejects
  /\ UNCHANGED <<batchv, purev, inputs, env, conns, navv, waitv, loopv, skipv,
                 harvestClicks, outcomes, snapClicks, mouse, filev, connectCalls,
                 solutionsClicks>>

\* lines 291-293
ClickNext ==
  /\ pc = "clickNext"
  /\ \/ /\ harvestClicks' = harvestClicks + 1
        /\ pagePos' = PosAfterNext
        /\ phraseShown' = PhraseAfterNext
        /\ qCounter' = qCounter + 1
        /\ noteId' = NoteIdAfterNext(noteId)
        /\ Goto("checkPhrase")
     \/ /\ UNCHANGED <<harvestClicks, pagePos, phraseShown, qCounter, noteId>>
        /\ Throw("error")                                    \* 291 rejects
  /\ UNCHANGED <<batchv, purev, inputs, conns, navv, waitv, allData, serial, skipv,
                 nextTests, outcomes, snapClicks, mouse, filev, connectCalls,
                 solutionsClicks>>

\* lines 297-300
CheckPhrase ==
  /\ pc = "checkPhrase"
  /\ \/ /\ IF phraseShown
           THEN pc' = "finalize" /\ endedBy' = "phrase"
           ELSE pc' = "process" /\ endedBy' = endedBy
        /\ UNCHANGED <<exitStatus, fault>>
     \/ Throw("error")                                       \* 299 rejects
  /\ UNCHANGED <<batchv, purev, inputs, env, conns, navv, waitv, loopv, skipv, harv, filev,
                 connectCalls, solutionsClicks>>

\* lines 303-309
Finalize ==
  /\ pc = "finalize"
  /\ IF ShouldWrite(allData)
     THEN fileWritten' = TRUE /\ fileData' = Serialize(allData)
     ELSE UNCHANGED filev
  /\ Goto("finally")
  /\ UNCHANGED <<batchv, purev, inputs, env, conns, navv, waitv, loopv, skipv, harv,
                 connectCalls, solutionsClicks>>

\* lines 311-315: the handler ends the process itself
Catch ==
  /\ pc = "catch"
  /\ pc' = "exited"
  /\ exitStatus' = ExitCode(TRUE)
  /\ UNCHANGED <<batchv, purev, inputs, env, conns, navv, waitv, loopv, skipv, harv, filev,
                 connectCalls, solutionsClicks, endedBy, fault>>

Closed(c) == IF c = "open" THEN "closed" ELSE c

\* lines 316-322: reached only when the try block completed; main() returns
Finally ==
  /\ pc = "finally"
  /\ tabClient' = Closed(tabClient)                          \* 317
  /\ browserClient' = Closed(browserClient)                  \* 318
  /\ logger' = Closed(logger)                                \* 319
  /\ pc' = "exited"
  /\ exitStatus' = ExitCode(FALSE)
  /\ UNCHANGED <<batchv, purev, inputs, env, navv, waitv, loopv, skipv, harv, filev,
                 connectCalls, solutionsClicks, endedBy, fault>>

Next ==
  \/ ParseOptions
  \/ ConnectBrowser
  \/ CreateTab
  \/ Navigate
  \/ Backoff
  \/ WaitTitle
  \/ WaitButton
  \/ WaitTitleTimeout
  \/ WaitButtonTimeout
  \/ ReadTitle
  \/ EnterQuiz
  \/ SkipStep
  \/ SkipDone
  \/ InitLoop
  \/ HumanLocate
  \/ HumanMove
  \/ HumanPress
  \/ HumanRelease
  \/ Process
  \/ Snapshot
  \/ CheckLimit
  \/ CheckNext
  \/ ClickNext
  \/ CheckPhrase
  \/ Finalize
  \/ Catch
  \/ Finally

Spec == Init /\ [][Next]_vars

\* ------------------------------------------- the sanitizer on its own
\* The session does not run: its variables keep one initial value.
MainIdle ==
  /\ MainInit
  /\ variant = "human" /\ ~optLink /\ optCount = Absent /\ skipCount = 0
  /\ commonTag = NoTag
  /\ numPages = 1 /\ ~lastHasNext

SeqsUpTo(S, n) == UNION {[1..k -> S] : k \in 0..n}

\* Nodes1: elements of leaves; Nodes2: elements of one such element (the
\* parser never leaves a paragraph inside a paragraph); tables stand among
\* text and breaks
Fragments ==
  LET Leaves == {Text("X"), Text("2"), Ws, Br}
      ElemKinds == {<<"font", "">>, <<"span", "">>, <<"span", "math-tex">>,
                    <<"span", "ng-binding">>, <<"p", "">>, <<"i", "">>}
      Nodes1 == {Elem(e[1], e[2], k) :
                   e \in ElemKinds, k \in SeqsUpTo(Leaves, MaxKids)}
      Nodes2 == {Elem(e[1], e[2], <<n>>) :
                   e \in ElemKinds, n \in {m \in Nodes1 : m.t # "p"}}
                \cup {Elem(e[1], e[2], <<n>>) :
                   e \in ElemKinds \ {<<"p", "">>},
                   n \in {m \in Nodes1 : m.t = "p"}}
      Around == {Text("X"), Ws, Br, Table(<<Text("X")>>),
                 Table(<<Text("X"), Br>>), Elem("i", "", <<Text("X")>>)}
  IN SeqsUpTo({Text("X"), Ws, Br}, MaxFlat)
     \cup {<<n>> : n \in Nodes1 \cup Nodes2}
     \cup {<<n, l>> : n \in Nodes1, l \in Leaves}
     \cup {<<l, n>> : l \in Leaves, n \in Nodes1}
     \cup SeqsUpTo(Around, MaxAround)
SanArgs == {Null, Undefined} \cup {Str(f) : f \in Fragments}

\* transformAndSanitizeHtml(x)
SanitizeOnce ==
  /\ pPc = "sanitize"
  /\ pOut' = transformAndSanitizeHtml(pIn.arg, pIn.throws)
  /\ pPc' = "sanitized"
  /\ UNCHANGED <<pIn, mainv, batchv>>

\* transformAndSanitizeHtml of the string the first call returned
SanitizeAgain ==
  /\ pPc = "sanitized"
  /\ \E throws2 \in BOOLEAN :
       pOut' = [first |-> pOut,
                second |-> transformAndSanitizeHtml(Str(Load(pOut)), throws2)]
  /\ pPc' = "resanitized"
  /\ UNCHANGED <<pIn, mainv, batchv>>

\* -------------------------------------------- the resolver on its own
SectionNames ==
  LET Cores == {<<>>} \cup {<<w>> : w \in Words}
               \cup {<<w[1], w[2]>> : w \in Words \X Words}
               \cup {<<w[1], Sp, w[2]>> : w \in Words \X Words}
      Pads == {<<>>, <<Sp>>}
  IN {NoName} \cup {l[1] \o c \o l[2] : l \in Pads \X Pads, c \in Cores}
QuestionNumbers == {Num(n) : n \in {0, 1, 30, 31, 45, 46, 60, 61, 70, 71}}
                   \cup {NaN, [kind |-> "string", v |-> 0],   \* e.g. "5"
                         [kind |-> "null", v |-> 0]}

\* getTagForQuestion(sectionName, questionNumber)
ResolveTag ==
  /\ pPc = "resolve"
  /\ pOut' = getTagForQuestion(pIn.sectionName, pIn.questionNumber)
  /\ pPc' = "resolved"
  /\ UNCHANGED <<pIn, mainv, batchv>>

\* ------------------------------------------ the extraction on its own
\* Labels: number element and section name
Pages ==
  LET OptionKinds == {OptionEl(Str(<<Text("X")>>), FALSE),
                      OptionEl(Str(<<Text("X")>>), TRUE),
                      OptionEl(Undefined, FALSE),    \* no option text element
                      OtherEl}
      Bodies == {Undefined, Str(<<Text("X")>>), Str(<<Br>>),
                 Str(<<Elem("p", "", <<Text("X"), Ws, Ws, Text("X")>>)>>)}
      Comprehensions == {Undefined, Str(<<Text("X")>>)}
      Labels == {<<NaN, <<"other">>>>, <<Num(31), <<Sp>> \o SectionI>>}
  IN {NoContainer} \cup
     {Page(l[1], l[2], c, b, Str(<<Text("X")>>), k) :
        l \in Labels, c \in Comprehensions, b \in Bodies,
        k \in SeqsUpTo(OptionKinds, MaxOptionKids)} \cup
     {[h EXCEPT !.raises = r] :
        h \in {NoContainer, SessionQuestion}, r \in {"load", "sanitize"}}
\* scrapeSingleQuestionPage(html, fallbackCounter, log, noteId, serialNumber)
ExtractPage ==
  /\ pPc = "extract"
  /\ pOut' = scrapeSingleQuestionPage(pIn.html, Num(InitialQCounter(0)),
                                      InitialNoteId(0), 1, pIn.throws)
  /\ pPc' = "extracted"
  /\ UNCHANGED <<pIn, mainv, batchv>>

\* ------------------------------------------ waitForSelector on its own
\* pOut: Date.now() - startTime, the polls made (when, and what they saw),
\* and how the call ended.
WaitCallPoll ==
  /\ pPc = "wait"
  /\ KeepPolling(pOut.elapsed, pIn.timeout)                   \* 55
  /\ \/ /\ pOut' = [pOut EXCEPT                               \* 57 found
                     !.polls = Append(@, [at |-> pOut.elapsed, seen |-> TRUE]),
                     !.result = "returned"]
        /\ pPc' = "waited"
     \/ /\ \E c \in PollCost :                                \* 58
             pOut' = [pOut EXCEPT
                        !.polls = Append(@, [at |-> pOut.elapsed,
                                             seen |-> FALSE]),
                        !.elapsed = @ + c]
        /\ pPc' = "wait"
     \/ /\ pOut' = [pOut EXCEPT !.result = "error"]           \* 56 rejects
        /\ pPc' = "waited"
  /\ UNCHANGED <<pIn, mainv, batchv>>

WaitCallTimeout ==
  /\ pPc = "wait"
  /\ ~KeepPolling(pOut.elapsed, pIn.timeout)
  /\ pOut' = [pOut EXCEPT !.result = "TimeoutError"]          \* 60
  /\ pPc' = "waited"
  /\ UNCHANGED <<pIn, mainv, batchv>>

PureInit ==
  /\ MainIdle /\ BatchIdle
  /\ \/ /\ pPc = "sanitize"
        /\ pIn \in [arg : SanArgs, throws : BOOLEAN]
        /\ pOut = <<>>
     \/ /\ pPc = "resolve"
        /\ pIn \in [sectionName : SectionNames,
                    questionNumber : QuestionNumbers]
        /\ pOut = <<>>
     \/ /\ pPc = "extract"
        /\ pIn \in [html : Pages, throws : BOOLEAN]
        /\ pOut = <<>>
     \/ /\ pPc = "wait"
        /\ pIn \in [timeout : {k * PollMs : k \in 0..MaxPolls}]
        /\ pOut = [elapsed |-> 0, polls |-> <<>>, result |-> "pending"]
PureNext ==
  \/ SanitizeOnce \/ SanitizeAgain \/ ResolveTag \/ ExtractPage
  \/ WaitCallPoll \/ WaitCallTimeout
PureSpec == PureInit /\ [][PureNext]_vars

\* ------------------------------------------------ the batch driver
\* src/unnamed/part_001 lines 116-293.  A task is [Status, File]; a file
\* reference is <<>> for '', 'UNKNOWN', or a path: the sequence of its
\* segments, ending with a file name.  The file names:
Unknown == <<"UNKNOWN">>
StaleFile == <<"stale">>            \* a result file of an earlier run
ResultFile(j) == <<"result", j>>    \* the result file of the session of task j

\* links.json at the start: each task PENDING, FAILED, or COMPLETED with or
\* without a file reference
TaskLists ==
  LET kinds == {<<"PENDING", FALSE>>, <<"FAILED", FALSE>>,
                <<"COMPLETED", FALSE>>, <<"COMPLETED", TRUE>>}
  IN {[j \in 1..Len(ks) |->
         [Status |-> ks[j][1],
          File |-> IF ks[j][2] THEN ResultFile(j) ELSE <<>>]] :
        ks \in SeqsUpTo(kinds, MaxTasks)}

\* lines 272, 281
StatusAfterAlwaysCompleted(success) == "COMPLETED"
StatusAfter(success) == IF success THEN "COMPLETED" ELSE "FAILED"

\* line 274: path.relative(PROJECT_ROOT, path.join(OUTPUT_DIR, name)): a
\* path is the sequence of its segments, the file name being the last ones
RelativeToRoot(outputFileName) == <<"output", "scraped">> \o outputFileName

\* lines 191-209 with 273-278: the path, from the project root, of the
\* newest .json file of the directory, or 'UNKNOWN' when there is none
FileAfter(success, dir) ==
  IF ~success THEN <<>>                                       \* 282
  ELSE IF dir = <<>> THEN Unknown                             \* 277
  ELSE RelativeToRoot(dir[Len(dir)])                          \* 274

\* lines 178-185: writeFileSync(LINKS_FILE_PATH, JSON.stringify(links))
SavedLinksStale(file, links) == file
SavedLinks(file, links) == links

BatchInit ==
  /\ MainIdle
  /\ pPc = "batch" /\ pIn \in TaskLists /\ pOut = <<>>
  /\ bPc = "loadLinks" /\ allLinks = <<>> /\ linksFile = pIn
  /\ outputDir \in {<<>>, <<StaleFile>>}
  /\ taskI = 0 /\ sessions = <<>> /\ checked = {} /\ updated = FALSE

\* lines 254-264: loadLinks, the test for pending tasks
LoadLinks ==
  /\ bPc = "loadLinks"
  /\ \/ /\ allLinks' = linksFile                              \* 165-166
        /\ taskI' = 1
        /\ bPc' = IF \E j \in 1..Len(linksFile) :
                       linksFile[j].Status = "PENDING"
                  THEN "loop" ELSE "done"                     \* 259-262
     \/ /\ bPc' = "exited"                                    \* 163, 170
        /\ UNCHANGED <<allLinks, taskI>>
  /\ UNCHANGED <<linksFile, outputDir, sessions, checked, updated, purev,
                 mainv>>

\* lines 266-268 with 216-236: the next task; a PENDING one gets a session
\* (or none, and fails, when the scraper script is missing: 220-223)
NextTask ==
  /\ bPc = "loop"
  /\ IF taskI > Len(allLinks)
     THEN bPc' = "done" /\ UNCHANGED <<taskI, sessions>>      \* 290
     ELSE IF allLinks[taskI].Status # "PENDING"
     THEN bPc' = "loop" /\ taskI' = taskI + 1 /\ UNCHANGED sessions
     ELSE \/ /\ bPc' = "session"                              \* 236
             /\ sessions' = Append(sessions,
                                   [task |-> taskI, exit |-> Running])
             /\ taskI' = taskI
          \/ /\ bPc' = "mark"                                 \* 222
             /\ UNCHANGED <<taskI, sessions>>
  /\ UNCHANGED <<allLinks, linksFile, outputDir, checked, updated, purev,
                 mainv>>

\* the scraper session ends: status 0 with a result file (part_000 303-309),
\* status 0 without one (no question collected), or status 1
SessionEnds ==
  /\ bPc = "session"
  /\ \E exit \in {0, 1}, wrote \in BOOLEAN :
       /\ wrote => exit = 0
       /\ sessions' = [sessions EXCEPT ![Len(sessions)].exit = exit]
       /\ outputDir' = IF wrote THEN Append(outputDir, ResultFile(taskI))
                       ELSE outputDir
  /\ bPc' = "mark"
  /\ UNCHANGED <<allLinks, linksFile, taskI, checked, updated, purev, mainv>>

\* lines 238-247 and 270-283: the result of runScraper, the task is marked
Mark ==
  /\ bPc = "mark"
  /\ LET success == /\ sessions # <<>>
                    /\ sessions[Len(sessions)].task = taskI
                    /\ sessions[Len(sessions)].exit = 0
     IN allLinks' = [allLinks EXCEPT
                       ![taskI] = [Status |-> StatusAfter(success),
                                   File |-> FileAfter(success, outputDir)]]
  /\ bPc' = "save"
  /\ UNCHANGED <<linksFile, outputDir, taskI, sessions, checked, updated,
                 purev, mainv>>

\* line 285: saveLinks(allLinks), then the next turn of the loop
Save ==
  /\ bPc = "save"
  /\ linksFile' = SavedLinks(linksFile, allLinks)
  /\ taskI' = taskI + 1
  /\ bPc' = "loop"
  /\ UNCHANGED <<allLinks, outputDir, sessions, checked, updated, purev,
                 mainv>>

\* --------------------------------------------------- the validator
\* src/scripts/validateLinks.js.  pIn: links.json and the files of the two
\* output directories.

\* lines 17-32: access() in output/scraped, else in output/tagged.
\* dirs.scraped and dirs.tagged hold the paths of the files of either
\* directory, from that directory: path.join(scrapedDir, fileName) exists
\* when fileName is one of them
fileExistsScrapedOnly(fileName, dirs) == fileName \in dirs.scraped
fileExists(fileName, dirs) ==
  fileName \in dirs.scraped \/ fileName \in dirs.tagged

ValidateInit ==
  /\ MainIdle
  /\ pPc = "validate" /\ pOut = <<>>
  /\ \E l \in TaskLists :
       LET refs == {l[j].File : j \in 1..Len(l)} \ {<<>>}
       IN \E s \in SUBSET refs, t \in SUBSET refs :
            pIn = [links |-> l, scraped |-> s, tagged |-> t]
  /\ bPc = "readLinks" /\ allLinks = <<>> /\ linksFile = pIn.links
  /\ outputDir = <<>>
  /\ taskI = 0 /\ sessions = <<>> /\ checked = {} /\ updated = FALSE

\* lines 37-40; a file that cannot be read or parsed ends the run (63-65)
ReadLinks ==
  /\ bPc = "readLinks"
  /\ \/ allLinks' = linksFile /\ bPc' = "checking"
     \/ allLinks' = allLinks /\ bPc' = "failed"
  /\ UNCHANGED <<linksFile, outputDir, taskI, sessions, checked, updated,
                 purev, mainv>>

\* lines 43-54: the callback of one entry runs to its end; the callbacks of
\* Promise.all end in any order
CheckEntry ==
  /\ bPc = "checking"
  /\ \E j \in (1..Len(allLinks)) \ checked :
       /\ checked' = checked \cup {j}
       /\ IF /\ allLinks[j].Status = "COMPLETED" /\ allLinks[j].File # <<>>
             /\ ~fileExists(allLinks[j].File, pIn)            \* 44-46
          THEN /\ allLinks' = [allLinks EXCEPT
                                 ![j] = [Status |-> "PENDING", File |-> <<>>]]
               /\ updated' = TRUE                             \* 48-50
          ELSE UNCHANGED <<allLinks, updated>>
  /\ UNCHANGED <<bPc, linksFile, outputDir, taskI, sessions, purev, mainv>>

\* lines 57-62, after every callback has ended
WriteLinks ==
  /\ bPc = "checking"
  /\ checked = 1..Len(allLinks)
  /\ linksFile' = IF updated THEN allLinks ELSE linksFile     \* 58
  /\ bPc' = "done"
  /\ UNCHANGED <<allLinks, outputDir, taskI, sessions, checked, updated,
                 purev, mainv>>

\* validateLinks.js run on what a finished run of the batch driver left:
\* its links.json and the files of output/scraped (both scripts resolve
\* the same project root, part_001 125 and validateLinks.js 11)
ValidateAfterBatch ==
  /\ pPc = "batch" /\ bPc = "done"
  /\ pPc' = "validate"
  /\ pIn' = [links |-> linksFile,
             scraped |-> {outputDir[k] : k \in 1..Len(outputDir)},
             tagged |-> {}]
  /\ bPc' = "readLinks" /\ allLinks' = <<>>
  /\ checked' = {} /\ updated' = FALSE
  /\ UNCHANGED <<pOut, linksFile, outputDir, taskI, sessions, mainv>>

BatchNext ==
  \/ LoadLinks \/ NextTask \/ SessionEnds \/ Mark \/ Save
  \/ ReadLinks \/ CheckEntry \/ WriteLinks
  \/ ValidateAfterBatch
BatchSpec == (BatchInit \/ ValidateInit) /\ [][BatchNext]_vars

\* ------------------------------------------------------------- claims
HarvestPcs == {"process", "humanClick", "mouseMove", "mousePress",
               "mouseRelease", "snapshot", "checkLimit", "checkNext",
               "clickNext", "checkPhrase"}
LoopEntered == serial >= 1
Snapshots_taken == Len(outcomes)
FailedBefore(k) == Cardinality({j \in 1..(k - 1) : ~outcomes[j]})
FirstOk == CHOOSE k \in 1..Len(outcomes) :
             outcomes[k] /\ \A j \in 1..(k - 1) : ~outcomes[j]
AllParsed == \A j \in 1..Len(outcomes) : outcomes[j]

\* C1: whenever a session that opened the browser connection has terminated,
\* every connection and log sink it opened has been closed.
C1_CleanupOnEveryExit ==
  (pc = "exited" /\ browserClient # "unset") =>
     /\ browserClient = "closed"
     /\ tabClient # "open"
     /\ logger # "open"

\* C2: once the harvesting loop has started, the k-th record of the
\* collection has serial number k, and the serial counter is the collection
\* size plus one, whatever pages failed to parse.
C2_SerialsContiguous ==
  LoopEntered =>
     /\ \A k \in 1..Len(allData) : allData[k].SL = k
     /\ serial = Len(allData) + 1

C2_Witness ==
  /\ pc \in HarvestPcs
  /\ Len(allData) >= 2
  /\ \E j \in 1..Len(outcomes) : ~outcomes[j]

C3_NullStep ==
  (pc = "snapshot" /\ Len(outcomes') = Len(outcomes) + 1
     /\ ~outcomes'[Len(outcomes')]) =>
        /\ allData' = allData
        /\ serial' = serial
        /\ qCounter' = qCounter
        /\ pc' = "checkLimit"
        /\ fault' = "none"

C3_Advance ==
  /\ (pc = "process" => /\ harvestClicks = Len(outcomes)
                        /\ qCounter = skipCount + 1 + Len(outcomes))
  /\ (LoopEntered => Len(allData) = Cardinality({j \in 1..Len(outcomes) : outcomes[j]}))

C3_Scenario ==
  (/\ pc \in {"finalize", "finally", "exited"} /\ endedBy # "none"
   /\ skipCount = 0 /\ numPages = 3 /\ optCount = Absent
   /\ Len(outcomes) = 3 /\ outcomes = <<TRUE, FALSE, TRUE>>) =>
      /\ Len(allData) = 2
      /\ allData[1].SL = 1 /\ allData[2].SL = 2
      /\ qCounter >= 3

\* C3: a page whose extraction returns null adds no record, leaves the serial
\* counter alone and leads to the termination checks, not to the error
\* handler; every page, parsed or not, is followed by one advance of the page
\* counter before the next page is processed; and 3 pages of which the 2nd
\* fails give 2 records numbered 1, 2 with the page counter through all 3.
C3_NullPageIsSkipped ==
  /\ [][C3_NullStep]_vars
  /\ [](C3_Advance /\ C3_Scenario)

C3_Witness ==
  /\ pc = "exited" /\ exitStatus = 0
  /\ skipCount = 0 /\ numPages = 3 /\ optCount = Absent
  /\ outcomes = <<TRUE, FALSE, TRUE>>
  /\ Len(allData) = 2

C4_Bound ==
  /\ (optCount >= 1 => Len(allData) <= optCount)
  /\ (optCount >= 1 /\ Len(allData) = optCount /\ pc \in HarvestPcs
        => pc = "checkLimit")
  /\ (optCount >= 1 /\ endedBy = "limit" => Len(allData) = optCount)
  /\ (optCount = 1 /\ endedBy # "none" /\ Len(outcomes) >= 1 /\ outcomes[1]
        => /\ Len(allData) = 1 /\ Len(outcomes) = 1 /\ endedBy = "limit"
           /\ nextTests = 0 /\ harvestClicks = 0)

C4_Frozen ==
  (optCount >= 1 /\ LoopEntered /\ Len(allData) >= optCount) =>
     /\ outcomes' = outcomes
     /\ nextTests' = nextTests
     /\ harvestClicks' = harvestClicks
     /\ allData' = allData
     /\ pc' \in {"finalize", "finally", "exited"}

\* C4: with a scrape limit L >= 1 the collection never holds more than L
\* records; from the moment it holds L no further page is snapshotted and the
\* next control is neither tested nor clicked; the loop then ends by the limit
\* check; limit 1 with every page parsing gives exactly one record from one
\* snapshot.
C4_LimitStopsLoop == [][C4_Frozen]_vars /\ []C4_Bound

C4_Witness ==
  /\ pc = "exited" /\ endedBy = "limit"
  /\ optCount = 1 /\ numPages = 5 /\ skipCount = 0
  /\ Len(allData) = 1

\* C5 as stated: the first record of the collection has noteId 1000 + skip
\* count and serial number 1.
C5_FirstNoteIdIsBasePlusSkip ==
  Len(allData) >= 1 =>
     /\ allData[1].noteId = 1000 + skipCount
     /\ allData[1].SL = 1

\* C5 amended: the first record has serial number 1 and noteId 1000 + skip
\* count + the number of pages that failed to parse before it; it is
\* 1000 + skip count when the first harvested page parses.
C5_FirstNoteIdCountsFailedPages ==
  Len(allData) >= 1 =>
     /\ allData[1].SL = 1
     /\ allData[1].noteId = 1000 + skipCount + FailedBefore(FirstOk)
     /\ (outcomes[1] => allData[1].noteId = 1000 + skipCount)

C5_Witness ==
  /\ skipCount = 2
  /\ Len(allData) >= 1
  /\ allData[1].SL = 1
  /\ ~outcomes[1]
  /\ allData[1].noteId = 1003

\* C6: noteIds are strictly increasing along the collection, the k-th
\* record's noteId is 1000 + skip count + the number of next clicks the
\* harvesting loop had made when its page was snapshotted, and in the loop
\* the noteId counter is the page counter + 999.
C6_NoteIds ==
  LoopEntered =>
     /\ \A k \in 1..Len(allData) :
          /\ allData[k].noteId = 1000 + skipCount + snapClicks[k]
          /\ k > 1 => allData[k - 1].noteId < allData[k].noteId
     /\ Len(snapClicks) = Len(allData)
     /\ noteId = qCounter + 999

C6_Witness ==
  /\ pc \in HarvestPcs
  /\ skipCount >= 1
  /\ Len(allData) >= 2
  /\ allData[2].noteId > allData[1].noteId + 1

C7_State ==
  /\ navI <= 3
  /\ (pc = "navigate" => navI \in 1..3)
  /\ (pc = "backoff" => navI < 3)
  /\ (pc \in {"navigate", "backoff"} => waitCalls = 0)
  /\ (fault = "navigation" =>
        /\ navI = 3
        /\ waitCalls = 0 /\ solutionsClicks = 0 /\ outcomes = <<>>
        /\ skipClicks = 0 /\ ~fileWritten
        /\ pc \in {"catch", "exited"}
        /\ (pc = "exited" => exitStatus = 1))

C7_Step ==
  /\ (pc = "navigate" /\ navI = 3 /\ pc' # "waitTitle") =>
        (pc' = "catch" /\ fault' = "navigation")
  /\ (pc = "navigate" /\ navI < 3 /\ pc' # "waitTitle") => pc' = "backoff"
  /\ (pc = "catch" /\ fault = "navigation") =>
        (pc' = "exited" /\ exitStatus' = 1)

\* C7: navigation is attempted with i = 1, 2, 3 at most; a backoff is taken
\* only after a failed attempt i < 3; once an attempt succeeded no further
\* attempt is made; the third failure is thrown, and a session ended by it
\* has status 1 and has waited for no selector, clicked nothing, harvested
\* nothing.
C7_NavigationRetries == [][C7_Step]_vars /\ []C7_State

C7_Witness ==
  /\ pc = "exited" /\ fault = "navigation" /\ exitStatus = 1 /\ navI = 3

C8_State ==
  /\ (pc = "waitTitle" => waitCalls = 1)
  /\ (pc = "waitButton" => waitCalls = 2)
  /\ waitCalls <= 2
  /\ (fault = "selectorTimeout" =>
        /\ waitElapsed >= 10000
        /\ pc = "exited"
        /\ exitStatus # 0 /\ exitStatus # Running
        /\ solutionsClicks = 0 /\ outcomes = <<>> /\ skipClicks = 0
        /\ allData = <<>> /\ ~fileWritten)

C8_Step ==
  /\ (pc \in {"waitTitle", "waitButton"} /\ waitElapsed >= 10000) =>
        (pc' = "exited" /\ fault' = "selectorTimeout" /\ exitStatus' # 0)
  /\ (pc = "waitTitle" /\ pc' \notin {"waitTitle", "exited", "catch"}) =>
        (pc' = "waitButton" /\ waitElapsed < 10000 /\ waitElapsed' = 0)
  /\ (pc = "waitButton" /\ pc' \notin {"waitButton", "exited", "catch"}) =>
        (pc' = "readTitle" /\ waitElapsed < 10000)

\* C8: the exam-title wait comes first and the solutions-button wait second,
\* each started once with its own clock; a wait goes on only while less than
\* 10000 ms have elapsed, and once they have the only step is the timeout,
\* which ends the process at once with a non-zero status: no click on the
\* solutions button, no snapshot, no result file, no second wait.
C8_SelectorTimeoutIsFatal == [][C8_Step]_vars /\ []C8_State

C8_Witness ==
  /\ fault = "selectorTimeout" /\ pc = "exited" /\ waitCalls = 2

\* C9: a terminated session has status 0 exactly when its harvesting loop was
\* ended by a termination check, and status 1 otherwise (missing URL,
\* navigation retries exhausted, selector timeout, any other error); a
\* missing URL ends it before any connection attempt.
C9_ExitStatus ==
  /\ (pc = "exited" =>
        /\ exitStatus \in {0, 1}
        /\ (exitStatus = 0 <=> endedBy \in {"limit", "noNext", "phrase"})
        /\ (exitStatus = 0 <=> fault = "none")
        /\ (exitStatus = 1 <=>
              fault \in {"missingUrl", "navigation", "selectorTimeout",
                         "emptyTitle", "error"}))
  /\ (pc # "exited" => exitStatus = Running)
  /\ (~optLink /\ pc # "main" =>
        pc = "exited" /\ exitStatus = 1 /\ fault = "missingUrl"
        /\ connectCalls = 0 /\ browserClient = "unset")

C9_Witness ==
  /\ pc = "exited" /\ exitStatus = 0 /\ allData = <<>> /\ Len(outcomes) >= 1

\* C10: a result file exists exactly when the loop was ended by a
\* termination check with a non-empty collection, and then holds the
\* collection in order; a session ended by an error has written none.
C10_ResultFile ==
  /\ (fileWritten => /\ endedBy # "none" /\ Len(allData) > 0
                     /\ Len(fileData) = Len(allData)
                     /\ \A k \in 1..Len(allData) : fileData[k] = allData[k])
  /\ (pc = "exited" /\ endedBy # "none" /\ Len(allData) > 0 => fileWritten)
  /\ (pc = "exited" /\ fault # "none" => ~fileWritten)
  /\ (pc = "exited" /\ allData = <<>> /\ endedBy # "none" =>
        ~fileWritten /\ exitStatus = 0)

C10_Witness ==
  /\ pc = "exited" /\ fault = "error" /\ Len(allData) >= 2 /\ ~fileWritten

\* ------------------------------------------------ claims on extraction
OptionFields(r) == {r.OP1, r.OP2, r.OP3, r.OP4}
SanitizedOptionsOf(html, throws) ==
  {transformAndSanitizeHtml(Raw(html.kids[i].text), throws) :
     i \in OptionPositions(html.kids)}

\* C11: every record returned by extraction has non-empty question HTML and
\* at least one non-null option field; a snapshot without the
\* active-question container yields null, and so does a snapshot whose
\* container yields no non-empty sanitized option.
C11_RecordHasQuestionAndOption ==
  pPc = "extracted" =>
    /\ (pOut # <<>> => /\ pOut[1].Question # <<>>
                       /\ \E o \in OptionFields(pOut[1]) : o # Null)
    /\ (~pIn.html.container => pOut = <<>>)
    /\ (SanitizedOptionsOf(pIn.html, pIn.throws) \subseteq {<<>>}
          => pOut = <<>>)

\* C12: the correct-answer field of every record returned by extraction is
\* an integer in 0..4, for any number of option containers and any position
\* of the correct-marked one.
C12_AnswerInRange ==
  pPc = "extracted" /\ pOut # <<>> => pOut[1].Answer \in 0..4

\* the 1-based position of the first correct-marked option container among
\* the option containers, 0 for none
PositionAmongOptions(kids) ==
  LET opts == SelectSeq(kids, LAMBDA k : k.option)
      marked == {i \in 1..Len(opts) : opts[i].correct}
  IN IF marked = {} THEN 0
     ELSE CHOOSE i \in marked : \A j \in marked : i <= j

\* C13: the correct-answer field is the 1-based position, among the option
\* containers, of the one carrying the correct marker, and 0 when none
\* carries it, also when other elements sit before or between the option
\* containers.
C13_AnswerIsOptionPosition ==
  pPc = "extracted" /\ pOut # <<>> =>
    pOut[1].Answer = PositionAmongOptions(pIn.html.kids)

\* C14: the tags of every record in the result collection are a
\* duplicate-free sequence: the resolved subject tag (when there is one)
\* followed by the common tag of the session (when one was supplied), which
\* is then the last tag of every record.
C14_TagsDuplicateFree ==
  \A k \in 1..Len(allData) :
    LET tags == allData[k].Tags
        subject == getTagForQuestion(SessionQuestion.section,
                                     SessionQuestion.number)
    IN /\ tags = (IF subject = NoTag THEN <<>> ELSE <<subject>>)
                 \o (IF commonTag = NoTag THEN <<>> ELSE <<commonTag>>)
       /\ (commonTag # NoTag => tags[Len(tags)] = commonTag)
       /\ \A i, j \in 1..Len(tags) : i # j => tags[i] # tags[j]

\* ---------------------------------------------- claims on the resolver
\* the keyword rules in their order
KeywordRules ==
  << <<{"quantitative", "quants"}, "MATH">>,
     <<{"intelligence", "reasoning"}, "GI">>,
     <<{"english"}, "ENG">>,
     <<{"awareness", "knowledge"}, "GK">>,
     <<{"computer"}, "COMPUTER">>,
     <<{"bengali"}, "BENGALI">> >>
LowerWordsOf(name) == {LowerWord(name[i]) : i \in 1..Len(name)}
FirstRule(name) ==
  LET hits == {r \in 1..Len(KeywordRules) :
                 KeywordRules[r][1] \cap LowerWordsOf(name) # {}}
  IN IF hits = {} THEN NoTag
     ELSE KeywordRules[CHOOSE r \in hits : \A q \in hits : r <= q][2]
InRange(n, lo, hi) == n.kind = "number" /\ n.v \in lo..hi
TagTable(name, n) ==
  LET s == trim(name) IN
  IF s = <<"Section", " ", "I">> /\ InRange(n, 1, 30) THEN "MATH"
  ELSE IF s = <<"Section", " ", "I">> /\ InRange(n, 31, 60) THEN "GI"
  ELSE IF s = <<"Section", " ", "II">> /\ InRange(n, 1, 45) THEN "ENG"
  ELSE IF s = <<"Section", " ", "II">> /\ InRange(n, 46, 70) THEN "GK"
  ELSE FirstRule(s)
NameMissing(name) == name = NoName \/ name = <<>>

\* C15 as stated: the resolver follows the table, and returns null when the
\* section name is empty or absent or the number is not a number (NaN, a
\* string, null).
C15_ResolverNullForNonNumbers ==
  pPc = "resolved" =>
    pOut = IF NameMissing(pIn.sectionName) \/ pIn.questionNumber.kind # "number"
           THEN NoTag
           ELSE TagTable(pIn.sectionName, pIn.questionNumber)

\* C15, amended: the resolver follows the table (exact "Section I" /
\* "Section II" with the number ranges, else the first matching keyword rule
\* in the fixed order, else null), and returns null when the section name is
\* empty or absent or the type of the number is not number; NaN is of type
\* number, lies in no range, and leaves the keyword rules to decide.
C15_ResolverTable ==
  pPc = "resolved" =>
    pOut = IF NameMissing(pIn.sectionName)
              \/ pIn.questionNumber.kind \notin {"number", "NaN"}
           THEN NoTag
           ELSE TagTable(pIn.sectionName, pIn.questionNumber)

C15_Witness ==
  /\ pPc = "resolved"
  /\ pIn.sectionName = <<"Quantitative", " ", "Reasoning">>
  /\ pIn.questionNumber = NaN
  /\ pOut = "MATH"

\* ---------------------------------------------- claims on the sanitizer
NoWs(s) == SelectSeq(s, LAMBDA tok : tok.t # "ws")
IsString(x) == x.kind = "string" /\ x.dom # <<>>

\* C16: sanitize returns the empty string for null, undefined and the empty
\* string; when the minifier fails it returns the trimmed result of the
\* string passes; a page that parses with a working minifier parses with a
\* failing one.
C16_MinifierFallback ==
  /\ (pPc = "sanitized" /\ ~IsString(pIn.arg) => pOut = <<>>)
  /\ (pPc = "sanitized" /\ IsString(pIn.arg) /\ pIn.throws =>
        pOut = Trim(StringPasses(Html(DomPasses(pIn.arg.dom)))))
  /\ (pPc = "extracted" /\ pIn.throws
      /\ scrapeSingleQuestionPage(pIn.html, Num(1), 1000, 1, FALSE) # <<>>
        => pOut # <<>>)

C16_Witness ==
  /\ pPc = "sanitized" /\ pIn.throws /\ pOut # <<>>
  /\ pOut # transformAndSanitizeHtml(pIn.arg, FALSE)

ParagraphOf(kids) == Elem("p", "", kids)

\* C17 as stated: <p></p> gives the empty string and <p>X</p> gives X<br>.
C17_ParagraphKeepsBreak ==
  pPc = "sanitized" =>
    /\ (pIn.arg = Str(<<ParagraphOf(<<>>)>>) => pOut = <<>>)
    /\ (pIn.arg = Str(<<ParagraphOf(<<Text("X")>>)>>) => pOut = <<Text("X"), Br>>)

\* C17, amended: <p></p> gives the empty string; a paragraph with non-blank
\* content is replaced by its content followed by one line break, so that
\* <p>K</p>L is sanitized as K<br>L; a break left at the end of the
\* fragment is stripped, so <p>X</p> gives X and <p>X</p>X gives X<br>X.
C17_ParagraphBreakUnlessLast ==
  pPc = "sanitized" /\ IsString(pIn.arg) =>
    LET dom == pIn.arg.dom IN
    /\ (dom = <<ParagraphOf(<<>>)>> => pOut = <<>>)
    /\ (dom = <<ParagraphOf(<<Text("X")>>)>> => pOut = <<Text("X")>>)
    /\ (dom = <<ParagraphOf(<<Text("X")>>), Text("X")>> =>
          pOut = <<Text("X"), Br, Text("X")>>)
    /\ (Len(dom) = 2 /\ dom[1].t = "p" =>
          pOut = transformAndSanitizeHtml(
                   Str(IF \E i \in 1..Len(dom[1].k) : dom[1].k[i].t # "ws"
                       THEN dom[1].k \o <<Br, dom[2]>> ELSE <<dom[2]>>),
                   pIn.throws))

C17_Witness ==
  /\ pPc = "sanitized"
  /\ pIn.arg = Str(<<ParagraphOf(<<Text("X")>>), Text("X")>>)
  /\ pOut = <<Text("X"), Br, Text("X")>>

\* a fragment of break, white-space and content tokens only
IsFlat(x) ==
  IsString(x) /\ \A i \in 1..Len(x.dom) : x.dom[i].t \in {"text", "ws", "br"}
IsBreak(s, i) == i \in 1..Len(s) /\ s[i].t = "br"
\* the breaks of a white-space-free string that survive: not in the leading
\* or the trailing run of breaks, and at most two of each run
Survives(s, i) ==
  \/ ~IsBreak(s, i)
  \/ /\ \E j \in 1..(i - 1) : ~IsBreak(s, j)
     /\ \E j \in (i + 1)..Len(s) : ~IsBreak(s, j)
     /\ ~(IsBreak(s, i - 1) /\ IsBreak(s, i - 2))
RECURSIVE SurvivorsFrom(_, _)
SurvivorsFrom(s, i) ==
  IF i > Len(s) THEN <<>>
  ELSE (IF Survives(s, i) THEN <<s[i]>> ELSE <<>>) \o SurvivorsFrom(s, i + 1)

\* C18: on a fragment of break, white-space and content tokens the output
\* has no three consecutive line breaks (white space apart), neither begins
\* nor ends with a line break, and is the input with leading and trailing
\* breaks dropped and every longer run of breaks cut to two: runs of one or
\* two stay, a run of four becomes two.
C18_BreakRuns ==
  pPc = "sanitized" /\ IsFlat(pIn.arg) =>
    LET out == NoWs(pOut) IN
    /\ \A i \in 1..Len(out) :
         ~(IsBreak(out, i) /\ IsBreak(out, i + 1) /\ IsBreak(out, i + 2))
    /\ (pOut # <<>> => ~IsBreak(pOut, 1) /\ ~IsBreak(pOut, Len(pOut)))
    /\ out = SurvivorsFrom(NoWs(pIn.arg.dom), 1)

C18_Witness ==
  /\ pPc = "sanitized"
  /\ pIn.arg = Str(<<Text("X"), Br, Br, Br, Br, Text("X")>>)
  /\ pOut = <<Text("X"), Br, Br, Text("X")>>

\* C19: sanitize is idempotent up to white space: sanitizing the output of
\* sanitize changes nothing.
C19_Idempotent ==
  pPc = "resanitized" => NoWs(pOut.second) = NoWs(pOut.first)

\* a lone span, and what the claim tests on it
IsLoneSpan(x) == IsString(x) /\ Len(x.dom) = 1 /\ x.dom[1].t = "span"
OnlyDigits(kids) ==
  /\ NoWs(TextOf(kids)) # <<>>
  /\ \A i \in 1..Len(TextOf(kids)) :
       LET tok == TextOf(kids)[i] IN
       \/ tok.t = "text" /\ tok.v = "2"
       \/ tok.t = "ws" /\ (\A j \in 1..(i - 1) : TextOf(kids)[j].t = "ws")
       \/ tok.t = "ws" /\ (\A j \in (i + 1)..Len(TextOf(kids)) :
                             TextOf(kids)[j].t = "ws")
ChildElements(kids) == {i \in 1..Len(kids) : kids[i].t \notin {"text", "ws"}}
IsWrapper(n) ==
  n.t = "font" \/ (n.t = "span" /\ n.c \in {"math-tex", "ng-binding"})
Superscript(kids) == <<Open("sup", "")>> \o NoWs(Html(kids)) \o <<Close("sup")>>

RunningSessions == {k \in 1..Len(sessions) : sessions[k].exit = Running}
\* the tasks whose marking by the loop is complete
Marked(j) ==
  \/ j < taskI
  \/ j = taskI /\ bPc = "save"
SessionOf(j) == {k \in 1..Len(sessions) : sessions[k].task = j}

\* C21: a batch run starts a session only for tasks that were PENDING, in
\* list order and once each; a task it has processed is COMPLETED with a
\* file reference when its session exited with 0 and FAILED with an empty
\* reference otherwise, never PENDING; a task that was COMPLETED or FAILED
\* at the start has no session and keeps its status and reference.
C21_OnlyPendingTasksRun ==
  pPc = "batch" /\ bPc \notin {"loadLinks", "exited"} =>
    /\ Len(allLinks) = Len(pIn)
    /\ \A k \in 1..Len(sessions) :
         /\ pIn[sessions[k].task].Status = "PENDING"
         /\ \A h \in 1..(k - 1) : sessions[h].task < sessions[k].task
    /\ \A j \in 1..Len(pIn) :
         IF pIn[j].Status # "PENDING" THEN allLinks[j] = pIn[j]
         ELSE IF ~Marked(j) THEN allLinks[j] = pIn[j]
         ELSE IF \E k \in SessionOf(j) : sessions[k].exit = 0
         THEN allLinks[j].Status = "COMPLETED" /\ allLinks[j].File # <<>>
         ELSE allLinks[j].Status = "FAILED" /\ allLinks[j].File = <<>>
    /\ (bPc = "done" => \A j \in 1..Len(pIn) : allLinks[j].Status # "PENDING"
                                               \/ pIn[j].Status # "PENDING")

C21_Witness ==
  /\ pPc = "batch" /\ bPc = "done" /\ Len(pIn) = 3
  /\ pIn[1].Status = "COMPLETED" /\ pIn[2].Status = "PENDING"
  /\ pIn[3].Status = "PENDING"
  /\ allLinks[2].Status = "FAILED" /\ allLinks[3].Status = "COMPLETED"
  /\ Len(sessions) = 2

C30_ReferenceIsOwnFile ==
  pPc = "batch" /\ bPc \notin {"loadLinks", "exited"} =>
    \A j \in 1..Len(allLinks) :
      pIn[j].Status = "PENDING" /\ allLinks[j].Status = "COMPLETED"
        => allLinks[j].File = <<"output", "scraped">> \o ResultFile(j)

\* ---------------------------------------- claims on the validator
ToDemote(task, dirs) ==
  /\ task.Status = "COMPLETED" /\ task.File # <<>>
  /\ task.File \notin dirs.scraped /\ task.File \notin dirs.tagged

\* C23: the validator demotes to PENDING, with an empty reference, exactly
\* the COMPLETED tasks whose referenced file is in neither directory, and
\* leaves every other task as it was; links.json is rewritten exactly when
\* a task was demoted, after every check has ended, with all demotions.
C23_DemotesExactlyMissing ==
  pPc = "validate" =>
    /\ (bPc = "checking" =>
          /\ linksFile = pIn.links
          /\ \A j \in 1..Len(allLinks) :
               allLinks[j] = IF j \in checked /\ ToDemote(pIn.links[j], pIn)
                             THEN [Status |-> "PENDING", File |-> <<>>]
                             ELSE pIn.links[j])
    /\ (bPc = "done" =>
          /\ \A j \in 1..Len(allLinks) :
               allLinks[j] = IF ToDemote(pIn.links[j], pIn)
                             THEN [Status |-> "PENDING", File |-> <<>>]
                             ELSE pIn.links[j]
          /\ linksFile = allLinks
          /\ (linksFile # pIn.links <=>
                \E j \in 1..Len(allLinks) : ToDemote(pIn.links[j], pIn))
          /\ (updated <=> linksFile # pIn.links))

C23_Witness ==
  /\ pPc = "validate" /\ bPc = "done" /\ Len(allLinks) = 3
  /\ pIn.links[1].Status = "COMPLETED" /\ ResultFile(1) \in pIn.tagged
  /\ ResultFile(1) \notin pIn.scraped /\ linksFile[1].Status = "COMPLETED"
  /\ pIn.links[2].Status = "COMPLETED" /\ linksFile[2].Status = "PENDING"
  /\ pIn.links[3].Status = "COMPLETED" /\ linksFile[3].Status = "PENDING"

\* ---------------------------------------- claims on the table pass
HasTable(nodes) == \E i \in 1..Len(nodes) : nodes[i].t = "table"
\* the breaks that stand in a run of consecutive sibling nodes next to a
\* table are removed, the other nodes stay
AdjacentBreaksRemoved(nodes) ==
  LET Inner(i, t) == {j \in 1..Len(nodes) : (i < j /\ j < t) \/ (t < j /\ j < i)}
      InRun(i) == \E t \in 1..Len(nodes) :
                    /\ nodes[t].t = "table"
                    /\ \A j \in Inner(i, t) : nodes[j].t = "br"
  IN Concat([i \in 1..Len(nodes) |->
       IF nodes[i].t = "br" /\ InRun(i) THEN <<>>
       ELSE IF nodes[i].t = "table"
            THEN << [nodes[i] EXCEPT !.k = RemoveBreaks(nodes[i].k)] >>
            ELSE << nodes[i] >>])

\* C29: around a table the sanitizer removes exactly the line breaks that
\* stand in a run of consecutive siblings next to the table; a line break
\* with text or another node between it and the table is kept.
C29_OnlyAdjacentBreaks ==
  pPc = "sanitized" /\ pIn.arg.kind = "string" /\ HasTable(pIn.arg.dom) =>
    pOut = Trim(minifyHtml(StringPasses(Html(
                   AdjacentBreaksRemoved(pIn.arg.dom))), pIn.throws))

\* ------------------------- claims on the termination checks and the skip
\* the next control is in the page shown
NextControlPresent == pagePos < numPages \/ lastHasNext

C24_Order ==
  /\ (pc \in {"checkLimit", "checkNext"} =>
        nextTests = Len(outcomes) - 1 /\ harvestClicks = Len(outcomes) - 1)
  /\ (pc = "clickNext" =>
        /\ nextTests = Len(outcomes) /\ harvestClicks = Len(outcomes) - 1
        /\ ~LimitReached(Len(allData), optCount) /\ NextControlPresent)
  /\ (pc = "checkPhrase" =>
        nextTests = Len(outcomes) /\ harvestClicks = Len(outcomes))
  /\ (endedBy = "limit" => /\ LimitReached(Len(allData), optCount)
                           /\ nextTests = Len(outcomes) - 1
                           /\ harvestClicks = Len(outcomes) - 1)
  /\ (endedBy = "noNext" => /\ ~LimitReached(Len(allData), optCount)
                            /\ ~NextControlPresent
                            /\ nextTests = Len(outcomes)
                            /\ harvestClicks = Len(outcomes) - 1)
  /\ (endedBy = "phrase" => /\ phraseShown
                            /\ nextTests = Len(outcomes)
                            /\ harvestClicks = Len(outcomes))

C24_Step ==
  /\ (nextTests' # nextTests =>
        pc = "checkNext" /\ ~LimitReached(Len(allData), optCount))
  /\ (harvestClicks' # harvestClicks =>
        /\ pc = "clickNext" /\ pc' = "checkPhrase"
        /\ ~LimitReached(Len(allData), optCount) /\ NextControlPresent)
  /\ (pc' = "checkPhrase" /\ pc # "checkPhrase" =>
        harvestClicks' = harvestClicks + 1)
  /\ (endedBy # "none" =>
        /\ endedBy' = endedBy /\ outcomes' = outcomes
        /\ nextTests' = nextTests /\ harvestClicks' = harvestClicks
        /\ pc' \in {"finalize", "finally", "exited"})

\* C24: in an iteration of the harvesting loop the limit is checked first,
\* the next control is tested only when the limit is not reached, it is
\* clicked only when it was found, and the phrase is looked for only after
\* that click; the first check that holds ends the loop: no further test,
\* click or snapshot follows it.
C24_ChecksInOrder == [][C24_Step]_vars /\ []C24_Order

C24_Witness ==
  /\ pc = "exited" /\ endedBy = "phrase"
  /\ Len(outcomes) = 2 /\ nextTests = 2 /\ harvestClicks = 2

\* the clicks after which the next control is absent for the first time,
\* counted from the first question; none when the last page still has it
ClicksToLastPage == numPages - 1

C25_Clicks ==
  /\ skipClicks <= skipCount
  /\ (~lastHasNext => skipClicks <= ClicksToLastPage)
  /\ (pc = "skip" => skipClicks = skipI)
  /\ (pc \in {"skip", "initLoop"} =>
        allData = <<>> /\ outcomes = <<>> /\ serial = 0)
  /\ (pc = "initLoop" =>
        skipClicks = IF lastHasNext \/ skipCount <= ClicksToLastPage
                     THEN skipCount ELSE ClicksToLastPage)

C25_Step ==
  skipClicks' # skipClicks =>
    /\ pc = "skip" /\ NextControlPresent
    /\ skipClicks' = skipClicks + 1
    /\ outcomes' = outcomes /\ allData' = allData

\* C25: with skip count s > 0 the skip phase clicks next min(s, k) times,
\* k being the number of clicks after which the control is absent, and
\* never clicks a control that is absent; with s = 0 it clicks nothing; no
\* snapshot, extraction or record belongs to the skip phase.
C25_SkipClicks == [][C25_Step]_vars /\ []C25_Clicks

C25_Witness ==
  /\ pc = "initLoop" /\ skipCount = 2 /\ numPages = 2 /\ ~lastHasNext
  /\ skipClicks = 1

\* ---------------------------------------- claims on waitForSelector
C26_Polls ==
  pPc \in {"wait", "waited"} =>
    /\ (pOut.result = "returned" =>
          /\ pOut.polls # <<>>
          /\ \A k \in 1..Len(pOut.polls) :
               pOut.polls[k].seen <=> k = Len(pOut.polls))
    /\ (pOut.result = "TimeoutError" =>
          /\ pOut.elapsed >= pIn.timeout
          /\ \A k \in 1..Len(pOut.polls) : ~pOut.polls[k].seen)
    /\ \A k \in 1..Len(pOut.polls) :
         /\ pOut.polls[k].at < pIn.timeout
         /\ (k > 1 => pOut.polls[k].at >= pOut.polls[k - 1].at + 250)
    /\ (pIn.timeout = 0 =>
          pOut.polls = <<>> /\ pOut.result \in {"pending", "TimeoutError"})
    /\ (pPc = "waited" <=> pOut.result # "pending")

C26_Step ==
  pPc = "wait" =>
    /\ (pOut.elapsed >= pIn.timeout =>
          pPc' = "waited" /\ pOut'.result = "TimeoutError")
    /\ (pOut.elapsed < pIn.timeout =>
          pOut'.result # "TimeoutError")

\* C26: waitForSelector returns only from a poll that saw the selector, and
\* from the first such poll; it raises TimeoutError only when the elapsed
\* time has reached the timeout and no poll saw the selector; two polls are
\* at least 250 ms apart; with timeout 0 it raises TimeoutError without a
\* poll.
C26_WaitForSelector == [][C26_Step]_vars /\ []C26_Polls

C26_Witness ==
  /\ pPc = "waited" /\ pIn.timeout = 750
  /\ pOut.result = "returned" /\ Len(pOut.polls) = 3

\* -------------------------------------------- claims on humanClick
\* moves, then at most one press at the centre, then at most one release
\* at the centre
ClickPrefix(ev) ==
  \A k \in 1..Len(ev) :
    /\ ev[k][1] \in {"mouseMoved", "mousePressed", "mouseReleased"}
    /\ (ev[k][1] = "mouseMoved" =>
          \A h \in 1..(k - 1) : ev[h][1] = "mouseMoved")
    /\ (ev[k][1] = "mousePressed" =>
          /\ ev[k][2] = "centre" /\ k > 1
          /\ \A h \in 1..(k - 1) : ev[h][1] = "mouseMoved")
    /\ (ev[k][1] = "mouseReleased" =>
          /\ ev[k][2] = "centre" /\ k = Len(ev)
          /\ k > 1 /\ ev[k - 1][1] = "mousePressed")
WholeClick(ev) ==
  ClickPrefix(ev) /\ ev # <<>> /\ ev[Len(ev)][1] = "mouseReleased"

C27_Events ==
  /\ ClickPrefix(mouse.events)
  /\ (mouse.found = "null" =>
        /\ mouse.events = <<>>
        /\ pc \in {"catch", "exited"} /\ fault = "error"
        /\ exitStatus \in {Running, 1}
        /\ endedBy = "none")
  /\ (mouse.events # <<>> => mouse.found = "centre")
  /\ (variant = "human" /\ pc \in {"snapshot", "checkLimit", "checkNext",
                                   "clickNext", "checkPhrase"}
        => WholeClick(mouse.events))

C27_Step ==
  /\ (pc = "humanClick" /\ mouse'.found = "null" =>
        pc' = "catch" /\ outcomes' = outcomes /\ allData' = allData)
  /\ (pc' = "snapshot" /\ pc # "snapshot" /\ variant = "human" =>
        pc = "mouseRelease" /\ WholeClick(mouse'.events))

\* C27: humanClick on a control that is present dispatches the mouse moves,
\* then one press and then one release at the centre of the control; on a
\* control that is absent it throws and dispatches nothing, and in the
\* harvesting loop that throw of the view-solution click goes to the
\* handler of main: the session ends with status 1, the page is not
\* snapshotted.
C27_HumanClick == [][C27_Step]_vars /\ []C27_Events

C27_Witness ==
  /\ pc = "exited" /\ exitStatus = 1 /\ mouse.found = "null"
  /\ Len(outcomes) = 1 /\ harvestClicks = 1

\* -------------------------------- claims on errors of the extraction
\* C28: an exception raised while the snapshot is parsed or a fragment is
\* sanitized does not leave the extraction: the call returns null for that
\* page, as it does for a page without a question, and a record otherwise.
C28_ExtractionCatches ==
  pPc = "extracted" =>
    /\ pOut # Raised
    /\ (pIn.html.raises = "load" => pOut = <<>>)
    /\ (pIn.html.raises = "sanitize" /\ pIn.html.container => pOut = <<>>)
    /\ (pOut # <<>> => pIn.html.raises = "none" /\ pOut[1].SL = 1)

C28_Witness ==
  /\ pPc = "extracted" /\ pOut = <<>>
  /\ pIn.html.raises = "sanitize" /\ pIn.html.container
  /\ pIn.html.kids # <<>>

\* ------------------------------------------- claims on the limit 0
\* C32: with a scrape limit given on the command line, 0 included, neither
\* the collection nor the result file ever holds more records than the
\* limit.
C32_NeverMoreThanLimit ==
  optCount # Absent =>
    /\ Len(allData) <= optCount
    /\ (fileWritten => Len(fileData) <= optCount)

\* ------------------------- claims on the driver and the validator
\* the tasks the driver ran with success in the run before the validator
CompletedByDriver ==
  {j \in 1..Len(pIn.links) :
     /\ pIn.links[j].Status = "COMPLETED"
     /\ \E k \in 1..Len(sessions) :
          sessions[k].task = j /\ sessions[k].exit = 0}
\* the reference of task j is the path, from the project root, of the file
\* its session wrote, and that file is in output/scraped
ResultFileExists(j) ==
  /\ pIn.links[j].File = <<"output", "scraped">> \o ResultFile(j)
  /\ \E k \in 1..Len(outputDir) : outputDir[k] = ResultFile(j)

\* C31: a task that the batch driver marked COMPLETED, with the reference
\* the driver recorded, whose file is still in output/scraped, is COMPLETED
\* with the same reference after the validator has run.
C31_ValidatorKeepsDriverTasks ==
  pPc = "validate" /\ bPc = "done" =>
    \A j \in CompletedByDriver :
      ResultFileExists(j) => /\ allLinks[j] = pIn.links[j]
                             /\ linksFile[j] = pIn.links[j]
====
